---------------------------- MODULE Spec2Model ----------------------------
(***************************************************************************)
(* Model of sm_cubit/visuals/improver.py: the five grid passes             *)
(* clean_pixel_grid, smoothen_edges, pad_edges, remove_small_grains and    *)
(* merge_grains, each run once on an input grid.  A grid is a sequence of  *)
(* rows, a row a sequence of IDs; Python's 0-based pixel_grid[row][col] is *)
(* pixel_grid[row][col] with 1-based indices here.  Each randint draw is a *)
(* nondeterministic choice.                                                *)
(***************************************************************************)
EXTENDS Integers, Sequences, FiniteSets

VARIABLES
    op,             \* the pass that was called
    input,          \* the caller's grid as it was at the call
    pixel_grid,     \* the caller's grid (mutated in place by three passes)
    new_pixel_grid, \* padded_pixel_grid of pad_edges / new_pixel_grid of merge_grains
    threshold,      \* the threshold argument (remove_small_grains, merge_grains)
    grain_map,      \* the grain_map argument: ID -> orientation (merge_grains)
    status,         \* "called", "running", "returned" or the exception raised
    row, col,       \* position of the row-major scan
    id_list,        \* id_list of remove_small_grains / merge_grains
    flattened,      \* flattened of remove_small_grains (computed once)
    idx,            \* index of the loop over id_list / merge_map.keys()
    merge_map,      \* merge_map of merge_grains: [keys: Seq(ID), lists: key -> Seq(ID)]
    absorbed,       \* history of remove_small_grains: [from, to] for each grain
                    \* reassigned, with the ID its pixels were given
    fills           \* history of clean_pixel_grid's draws: [cell, drawn] for each
                    \* cell its first rule drew a neighbour for, with the value drawn

vars == <<op, input, pixel_grid, new_pixel_grid, threshold, grain_map, status,
          row, col, id_list, flattened, idx, merge_map, absorbed, fills>>

---------------------------------------------------------------------------
(* Bounds of the model *)

\* grain IDs are 1..MaxGrain
MaxGrain == 2

\* thresholds are drawn from -1..MaxThreshold
MaxThreshold == 3

\* the shapes <<x_size, y_size>> of the input grids
Shapes == {<<1, 1>>, <<3, 1>>, <<2, 2>>, <<3, 2>>}

---------------------------------------------------------------------------
(* sm_cubit.maths.pixel_maths: the two sentinels and the neighbour queries *)

\* both sentinels lie above every grain ID
VOID_ID == MaxGrain + 1

UNORIENTED_ID == MaxGrain + 2

GrainIds == 1..MaxGrain

Ids == GrainIds \cup {VOID_ID, UNORIENTED_ID}

\* bounded 8-adjacent cells <<col, row>> of (c, r), no wraparound
get_neighbours(c, r, x_size, y_size) ==
    {n \in ((c - 1)..(c + 1)) \X ((r - 1)..(r + 1)) :
        /\ n # <<c, r>>
        /\ n[1] >= 1 /\ n[1] <= x_size
        /\ n[2] >= 1 /\ n[2] <= y_size}

\* the halo of a coordinate set: neighbours of a member that are no member
get_all_neighbours(coords, x_size, y_size) ==
    (UNION {get_neighbours(p[1], p[2], x_size, y_size) : p \in coords}) \ coords

\* a y_size by x_size grid of VOID_ID
get_void_pixel_grid(x_size, y_size) ==
    [r \in 1..y_size |-> [c \in 1..x_size |-> VOID_ID]]

---------------------------------------------------------------------------
(* Grids *)

x_size(g) == Len(g[1])

y_size(g) == Len(g)

\* the value of cell n = <<col, row>>
At(g, n) == g[n[2]][n[1]]

Cells(g) == IF Len(g) = 0 THEN {} ELSE (1..x_size(g)) \X (1..y_size(g))

Values(g) == {At(g, n) : n \in Cells(g)}

GridsOf(shape) == [1..shape[2] -> [1..shape[1] -> Ids]]

\* the input grids: every grid of every shape, and the empty grid
Grids == (UNION {GridsOf(s) : s \in Shapes}) \cup {<< >>}

RECURSIVE SortedSeq(_)
\* the ascending sequence of a finite set of integers (list.sort)
SortedSeq(S) ==
    IF S = {} THEN << >>
    ELSE LET m == CHOOSE x \in S : \A y \in S : x <= y
         IN  <<m>> \o SortedSeq(S \ {m})

RECURSIVE Flatten(_)
\* [pixel for pixel_list in pixel_grid for pixel in pixel_list]
Flatten(g) == IF Len(g) = 0 THEN << >> ELSE Head(g) \o Flatten(Tail(g))

Range(s) == {s[i] : i \in DOMAIN s}

\* list.count
Count(s, v) == Cardinality({i \in DOMAIN s : s[i] = v})

\* get_sorted_grain_id_list: the distinct values without VOID_ID, ascending
get_sorted_grain_id_list(g) == SortedSeq(Range(Flatten(g)) \ {VOID_ID})

---------------------------------------------------------------------------
(* The arguments of a call *)

Passes == {"clean_pixel_grid", "smoothen_edges", "pad_edges",
           "remove_small_grains", "merge_grains"}

Thresholds == (-1)..MaxThreshold

\* orientations along a line: the distance of two IDs is their difference
LineMap == [id \in GrainIds \cup {UNORIENTED_ID} |-> <<id, 0, 0>>]

\* odd and even IDs apart, IDs of one parity together
ParityMap == [id \in GrainIds \cup {UNORIENTED_ID} |-> <<0, 2 * (id % 2), id % 2>>]

\* a map with no entry for UNORIENTED_ID
GrainOnlyMap == [id \in GrainIds |-> <<0, id, 0>>]

GrainMaps == {LineMap, ParityMap, GrainOnlyMap}

NoMap == << >>

NoMergeMap == [keys |-> << >>, lists |-> << >>]

Init ==
    /\ op \in Passes
    /\ pixel_grid \in Grids
    /\ input = pixel_grid
    /\ new_pixel_grid = << >>
    /\ threshold \in IF op \in {"remove_small_grains", "merge_grains"}
                     THEN Thresholds ELSE {0}
    /\ grain_map \in IF op = "merge_grains" THEN GrainMaps ELSE {NoMap}
    /\ status = "called"
    /\ row = 1
    /\ col = 1
    /\ id_list = << >>
    /\ flattened = << >>
    /\ idx = 1
    /\ merge_map = NoMergeMap
    /\ absorbed = {}
    /\ fills = {}

---------------------------------------------------------------------------
(* The row-major scan shared by the first three passes *)

\* lines 24-25: len(pixel_grid[0]) raises IndexError on an empty grid
EnterScan ==
    /\ status = "called"
    /\ op \in {"clean_pixel_grid", "smoothen_edges", "pad_edges"}
    /\ IF Len(pixel_grid) = 0
       THEN status' = "IndexError" /\ UNCHANGED new_pixel_grid
       ELSE /\ status' = "running"
            /\ new_pixel_grid' =
                 IF op = "pad_edges"
                 THEN get_void_pixel_grid(x_size(pixel_grid), y_size(pixel_grid))
                 ELSE new_pixel_grid
    /\ UNCHANGED <<op, input, pixel_grid, threshold, grain_map, row, col,
                   id_list, flattened, idx, merge_map, absorbed, fills>>

\* for row in range(y_size): for col in range(x_size): the next position,
\* and the return once the last cell is done
Advance ==
    /\ IF col < x_size(pixel_grid)
       THEN col' = col + 1 /\ row' = row /\ status' = status
       ELSE IF row < y_size(pixel_grid)
            THEN col' = 1 /\ row' = row + 1 /\ status' = status
            ELSE col' = col /\ row' = row /\ status' = "returned"

Put(g, r, c, v) == [g EXCEPT ![r][c] = v]

---------------------------------------------------------------------------
(* clean_pixel_grid, lines 13-52 *)

\* line 37-38: the number of void neighbours
NumVoid(g, N) == Cardinality({n \in N : At(g, n) = VOID_ID})

\* line 41: num_void <= len(neighbours) / 2
AtMostHalfVoid(num_void, n) == 2 * num_void <= n

MoreThanHalfVoid_Mutant(num_void, n) == 2 * num_void >= n

\* line 48: num_void > len(neighbours) / 2
MoreThanHalfVoid(num_void, n) == 2 * num_void > n

\* lines 48-49: a live pixel with a void majority around it is removed
RemoveLive(g, r, c, num_void, n) ==
    IF g[r][c] # VOID_ID /\ MoreThanHalfVoid(num_void, n)
    THEN Put(g, r, c, VOID_ID)
    ELSE g

\* lines 29-49: one iteration of the scan
CleanStep ==
    /\ status = "running"
    /\ op = "clean_pixel_grid"
    /\ LET N        == get_neighbours(col, row, x_size(pixel_grid), y_size(pixel_grid))
           num_void == NumVoid(pixel_grid, N)
           n        == Cardinality(N)
       IN  IF pixel_grid[row][col] = UNORIENTED_ID
           THEN Advance /\ UNCHANGED <<pixel_grid, fills>>
           ELSE IF pixel_grid[row][col] = VOID_ID /\ AtMostHalfVoid(num_void, n)
           THEN IF N = {}
                \* randint(0, -1) raises ValueError
                THEN /\ status' = "ValueError"
                     /\ UNCHANGED <<pixel_grid, fills, row, col>>
                ELSE \E copy \in N :
                       /\ fills' = fills \cup {[cell |-> <<col, row>>,
                                                drawn |-> At(pixel_grid, copy)]}
                       /\ pixel_grid' =
                            IF At(pixel_grid, copy) = UNORIENTED_ID
                            THEN pixel_grid
                            ELSE RemoveLive(Put(pixel_grid, row, col, At(pixel_grid, copy)),
                                            row, col, num_void, n)
                       /\ Advance
           ELSE /\ pixel_grid' = RemoveLive(pixel_grid, row, col, num_void, n)
                /\ Advance
                /\ UNCHANGED fills
    /\ UNCHANGED <<op, input, new_pixel_grid, threshold, grain_map,
                   id_list, flattened, idx, merge_map, absorbed>>

---------------------------------------------------------------------------
(* smoothen_edges, lines 54-88 *)

\* line 78: the neighbours whose value differs from the pixel's
ForeignNeighbours(g, c, r) ==
    {n \in get_neighbours(c, r, x_size(g), y_size(g)) : At(g, n) # g[r][c]}

Absorb_Mutant(g, r, c, foreign) ==
    IF At(g, foreign) = UNORIENTED_ID THEN g ELSE Put(g, r, c, foreign[1] - 1)

\* lines 83-85: the pixel takes the drawn neighbour's value, unless that is
\* UNORIENTED_ID
Absorb(g, r, c, foreign) ==
    IF At(g, foreign) = UNORIENTED_ID THEN g ELSE Put(g, r, c, At(g, foreign))

\* lines 70-85: one iteration of the scan
SmoothenStep ==
    /\ status = "running"
    /\ op = "smoothen_edges"
    /\ LET foreign_neighbours == ForeignNeighbours(pixel_grid, col, row)
       IN  IF pixel_grid[row][col] # UNORIENTED_ID
              /\ Cardinality(foreign_neighbours) > 2
           THEN \E foreign \in foreign_neighbours :
                   pixel_grid' = Absorb(pixel_grid, row, col, foreign)
           ELSE UNCHANGED pixel_grid
    /\ Advance
    /\ UNCHANGED <<op, input, new_pixel_grid, threshold, grain_map,
                   id_list, flattened, idx, merge_map, absorbed, fills>>

---------------------------------------------------------------------------
(* pad_edges, lines 90-126 *)

IsLive_Mutant(v) == v \notin {VOID_ID, UNORIENTED_ID}

\* lines 112, 118: a pixel is live when it is not void
IsLive(v) == v # VOID_ID

PadSource_Mutant(g, padded) == padded

\* lines 118, 123: neighbours are read from the input grid, never from
\* padded_pixel_grid
PadSource(g, padded) == g

\* line 118: the live neighbours
LiveNeighbours(g, c, r) ==
    {n \in get_neighbours(c, r, x_size(g), y_size(g)) : IsLive(At(g, n))}

\* lines 109-123: one iteration of the scan
PadStep ==
    /\ status = "running"
    /\ op = "pad_edges"
    /\ LET source          == PadSource(pixel_grid, new_pixel_grid)
           live_neighbours == LiveNeighbours(source, col, row)
       IN  IF IsLive(pixel_grid[row][col])
           THEN new_pixel_grid' = Put(new_pixel_grid, row, col, pixel_grid[row][col])
           ELSE IF Cardinality(live_neighbours) > 0
           THEN \E copy \in live_neighbours :
                   new_pixel_grid' = Put(new_pixel_grid, row, col, At(source, copy))
           ELSE UNCHANGED new_pixel_grid
    /\ Advance
    /\ UNCHANGED <<op, input, pixel_grid, threshold, grain_map,
                   id_list, flattened, idx, merge_map, absorbed, fills>>

---------------------------------------------------------------------------
(* remove_small_grains, lines 144-186 *)

\* lines 156-158: the ID list and the counts are taken once, then
\* len(pixel_grid[0]) raises IndexError on an empty grid
EnterRemove ==
    /\ status = "called"
    /\ op = "remove_small_grains"
    /\ id_list' = get_sorted_grain_id_list(pixel_grid)
    /\ flattened' = Flatten(pixel_grid)
    /\ status' = IF Len(pixel_grid) = 0 THEN "IndexError" ELSE "running"
    /\ UNCHANGED <<op, input, pixel_grid, new_pixel_grid, threshold, grain_map,
                   row, col, idx, merge_map, absorbed, fills>>

AtThreshold_Mutant(count, thr) == count >= thr - 1

\* line 164: flattened.count(id) >= threshold
AtThreshold(count, thr) == count >= thr

\* lines 168-174: the coordinates of the pixels that hold id now
CoordsOf(g, id) == {n \in Cells(g) : At(g, n) = id}

\* line 179: max(set(neighbour_ids), key=neighbour_ids.count): the IDs most
\* frequent among the halo's pixels; which of several the build returns
\* depends on the iteration order of a Python set
MostNeighbouring(g, halo) ==
    LET neighbour_ids == {At(g, n) : n \in halo}
        count(v)      == Cardinality({n \in halo : At(g, n) = v})
    IN  {v \in neighbour_ids : \A w \in neighbour_ids : count(v) >= count(w)}

\* lines 182-183: every coordinate of the small grain gets the ID
Replace(g, coords, v) ==
    [r \in 1..y_size(g) |->
        [c \in 1..x_size(g) |-> IF <<c, r>> \in coords THEN v ELSE g[r][c]]]

\* lines 161-186: one iteration of the loop over id_list, or the return
RemoveStep ==
    /\ status = "running"
    /\ op = "remove_small_grains"
    /\ IF idx > Len(id_list)
       THEN /\ status' = "returned"
            /\ UNCHANGED <<pixel_grid, idx, absorbed>>
       ELSE LET id     == id_list[idx]
                coords == CoordsOf(pixel_grid, id)
                halo   == get_all_neighbours(coords, x_size(pixel_grid),
                                             y_size(pixel_grid))
            IN  IF AtThreshold(Count(flattened, id), threshold)
                THEN /\ idx' = idx + 1
                     /\ UNCHANGED <<pixel_grid, status, absorbed>>
                ELSE IF halo = {}
                \* max() of an empty set raises ValueError
                THEN /\ status' = "ValueError"
                     /\ UNCHANGED <<pixel_grid, idx, absorbed>>
                ELSE \E most_neighbouring \in MostNeighbouring(pixel_grid, halo) :
                        /\ pixel_grid' = Replace(pixel_grid, coords, most_neighbouring)
                        /\ absorbed' = absorbed \cup
                                         {[from |-> id, to |-> most_neighbouring]}
                        /\ idx' = idx + 1
                        /\ UNCHANGED status
    /\ UNCHANGED <<op, input, new_pixel_grid, threshold, grain_map,
                   row, col, id_list, flattened, merge_map, fills>>

---------------------------------------------------------------------------
(* merge_grains, lines 188-229 *)

Abs(x) == IF x < 0 THEN -x ELSE x

\* line 210: sum([abs(orientation_1[k] - orientation_2[k]) for k in range(3)])
Error(orientation_1, orientation_2) ==
    Abs(orientation_1[1] - orientation_2[1])
    + Abs(orientation_1[2] - orientation_2[2])
    + Abs(orientation_1[3] - orientation_2[3])

WithinThreshold_Mutant(error, thr) == error <= thr

\* line 211: error < threshold
WithinThreshold(error, thr) == error < thr

\* lines 208-215: the IDs after index i within the threshold of ids[i], in order
MergeList(ids, i, gm, thr) ==
    LET Close(id) == WithinThreshold(Error(gm[ids[i]], gm[id]), thr)
    IN  SelectSeq(SubSeq(ids, i + 1, Len(ids)), Close)

RECURSIVE MergeKeys(_, _, _, _)
\* the keys of merge_map in insertion order: the IDs from index i on whose
\* list is not empty
MergeKeys(ids, i, gm, thr) ==
    IF i > Len(ids) THEN << >>
    ELSE (IF MergeList(ids, i, gm, thr) # << >> THEN <<ids[i]>> ELSE << >>)
         \o MergeKeys(ids, i + 1, gm, thr)

\* lines 203-215: merge_map
BuildMergeMap(ids, gm, thr) ==
    [keys  |-> MergeKeys(ids, 1, gm, thr),
     lists |-> [k \in Range(MergeKeys(ids, 1, gm, thr)) |->
                  MergeList(ids, CHOOSE i \in DOMAIN ids : ids[i] = k, gm, thr)]]

\* lines 201-215: the ID list, the copy of the grid and merge_map;
\* grain_map[id] raises KeyError for an ID the map does not hold
EnterMerge ==
    /\ status = "called"
    /\ op = "merge_grains"
    /\ id_list' = get_sorted_grain_id_list(pixel_grid)
    /\ new_pixel_grid' = pixel_grid
    /\ IF Range(id_list') \subseteq DOMAIN grain_map
       THEN /\ merge_map' = BuildMergeMap(id_list', grain_map, threshold)
            /\ status' = "running"
       ELSE /\ status' = "KeyError"
            /\ UNCHANGED merge_map
    /\ UNCHANGED <<op, input, pixel_grid, threshold, grain_map,
                   row, col, flattened, idx, absorbed, fills>>

MergedId_Mutant(id, r, c) == r - 1

\* line 222: new_pixel_grid[i][j] = id
MergedId(id, r, c) == id

\* lines 219-222: every pixel whose current value is in the key's list
\* gets the key
ApplyKey(g, id, list) ==
    [r \in DOMAIN g |->
        [c \in DOMAIN g[r] |->
            IF g[r][c] \in Range(list) THEN MergedId(id, r, c) ELSE g[r][c]]]

\* lines 218-229: one iteration of the loop over merge_map.keys(), or the return
MergeStep ==
    /\ status = "running"
    /\ op = "merge_grains"
    /\ IF idx > Len(merge_map.keys)
       THEN /\ status' = "returned"
            /\ UNCHANGED <<new_pixel_grid, idx>>
       ELSE /\ new_pixel_grid' = ApplyKey(new_pixel_grid, merge_map.keys[idx],
                                          merge_map.lists[merge_map.keys[idx]])
            /\ idx' = idx + 1
            /\ UNCHANGED status
    /\ UNCHANGED <<op, input, pixel_grid, threshold, grain_map,
                   row, col, id_list, flattened, merge_map, absorbed, fills>>

---------------------------------------------------------------------------

Next ==
    \/ EnterScan
    \/ CleanStep
    \/ SmoothenStep
    \/ PadStep
    \/ EnterRemove
    \/ RemoveStep
    \/ EnterMerge
    \/ MergeStep

Spec == Init /\ [][Next]_vars


---------------------------------------------------------------------------
(* Properties *)

Finished == status \notin {"called", "running"}

\* the grid a pass hands back: pad_edges and merge_grains return a new grid,
\* the other passes the caller's grid
Result ==
    IF op \in {"pad_edges", "merge_grains"} THEN new_pixel_grid ELSE pixel_grid

NonVoidIds(g) == Values(g) \ {VOID_ID}

\* C1: in the result of every pass, every cell that held UNORIENTED_ID in the
\* input holds UNORIENTED_ID.
C1_UnorientedKept ==
    status = "returned" =>
        \A n \in Cells(input) :
            At(input, n) = UNORIENTED_ID => At(Result, n) = UNORIENTED_ID

C4_NoSmallGrainLeft ==
    (op = "remove_small_grains" /\ status = "returned") =>
        \A id \in NonVoidIds(input) :
            (Count(Flatten(input), id) < threshold /\ id \in Values(pixel_grid))
                => \E a \in absorbed : a.to = id /\ a.from < id

C4_Witness ==
    /\ op = "remove_small_grains"
    /\ status = "returned"
    /\ \E a, b \in absorbed : a.to = b.from
    /\ \E id \in NonVoidIds(pixel_grid) : Count(Flatten(input), id) >= threshold

\* C5: in the result of merge_grains every cell whose value differs from its
\* input value holds a representative whose orientation distance to the
\* cell's input ID is strictly below the threshold.
C5_MergedWithinThreshold ==
    (op = "merge_grains" /\ status = "returned") =>
        \A n \in Cells(input) :
            At(new_pixel_grid, n) # At(input, n) =>
                /\ At(new_pixel_grid, n) \in Range(merge_map.keys)
                /\ Error(grain_map[At(new_pixel_grid, n)], grain_map[At(input, n)])
                       < threshold

C5_Witness ==
    /\ op = "merge_grains"
    /\ status = "returned"
    /\ Len(merge_map.keys) > 1
    /\ \E n, m \in Cells(input) :
          /\ At(new_pixel_grid, n) # At(input, n)
          /\ At(new_pixel_grid, m) # At(input, m)
          /\ At(new_pixel_grid, n) # At(new_pixel_grid, m)

\* C6: a call with an empty grid, or a call of remove_small_grains or
\* merge_grains with a threshold of zero or less, fails with InvalidInput and
\* leaves the caller's grid unchanged.
C6_InvalidInputRejected ==
    (/\ Finished
     /\ \/ Len(input) = 0
        \/ op \in {"remove_small_grains", "merge_grains"} /\ threshold <= 0)
        => (status = "InvalidInput" /\ pixel_grid = input)

\* C7: every value in the result of a pass is VOID_ID or a value of the
\* input grid.
C7_NoNewId ==
    status = "returned" => Values(Result) \subseteq (Values(input) \cup {VOID_ID})

C7_Witness ==
    /\ status = "returned"
    /\ op = "smoothen_edges"
    /\ \E n \in Cells(input) : At(Result, n) # At(input, n)

\* C8: pad_edges copies every non-void input cell, gives every void input
\* cell with a non-void input neighbour the input value of one of those
\* neighbours, leaves every other void cell void, and so returns at least as
\* many non-void cells as it was given.
C8_PaddedFromInput ==
    (op = "pad_edges" /\ status = "returned") =>
        /\ \A n \in Cells(input) :
              LET live == {m \in get_neighbours(n[1], n[2], x_size(input), y_size(input)) :
                             At(input, m) # VOID_ID}
              IN  /\ At(input, n) # VOID_ID => At(new_pixel_grid, n) = At(input, n)
                  /\ (At(input, n) = VOID_ID /\ live # {}) =>
                         At(new_pixel_grid, n) \in {At(input, m) : m \in live}
                  /\ (At(input, n) = VOID_ID /\ live = {}) =>
                         At(new_pixel_grid, n) = VOID_ID
        /\ Len(Flatten(input)) - Count(Flatten(input), VOID_ID)
              <= Len(Flatten(new_pixel_grid)) - Count(Flatten(new_pixel_grid), VOID_ID)

C8_Witness ==
    /\ op = "pad_edges"
    /\ status = "returned"
    /\ \E n, m \in Cells(input) :
          /\ At(input, n) = VOID_ID /\ At(new_pixel_grid, n) # VOID_ID
          /\ At(input, m) = VOID_ID /\ At(new_pixel_grid, m) = VOID_ID

\* C9: the grid merge_grains returns holds at most as many distinct non-void
\* IDs as its input.
C9_DistinctIdsNotMore ==
    (op = "merge_grains" /\ status = "returned") =>
        Cardinality(NonVoidIds(new_pixel_grid)) <= Cardinality(NonVoidIds(input))

\* a representative that was itself folded into a smaller representative
C9_Witness ==
    /\ op = "merge_grains"
    /\ status = "returned"
    /\ \E k1, k2 \in Range(merge_map.keys) :
          /\ k2 \in Range(merge_map.lists[k1])
          /\ k2 \in NonVoidIds(new_pixel_grid)
    /\ Cardinality(NonVoidIds(new_pixel_grid)) < Cardinality(NonVoidIds(input))

\* C10: on a non-empty grid with a positive threshold remove_small_grains
\* raises nothing and returns a grid of the dimensions of its input.
C10_RemoveCompletes ==
    (/\ op = "remove_small_grains"
     /\ Finished
     /\ Len(input) > 0
     /\ threshold > 0)
        => /\ status = "returned"
           /\ Len(pixel_grid) = Len(input)
           /\ \A r \in DOMAIN input : Len(pixel_grid[r]) = Len(input[r])

============================================================================
